---- MODULE Spec2Model ----
(***************************************************************************)
(* A model of maps-download-check: the manifest resolver                   *)
(* (Manifest::countries, Country::files, ZipFile::new), the verification   *)
(* engine (analyze / Processor), the problem list views (ProblemList) and  *)
(* the tail of main.                                                       *)
(*                                                                         *)
(* Strings are sequences of one-character strings, so that formatting      *)
(* ({:02}, {:x}) and parsing (str::parse::<u64>) are computed, not assumed. *)
(* Option<T> is a sequence of length 0 (None) or 1 (Some).                 *)
(***************************************************************************)
EXTENDS Integers, Sequences, FiniteSets, TLC

VARIABLES
    countries,    \* analyze's `countries`: the resolved Country records
    zip_files,    \* analyze's `zip_files`: filename -> DirEntry
    nworkers,     \* size of the rayon pool of this run
    cursor,       \* per country: how many items of c.files() were pulled
    pc,           \* per worker: position in the for_each closure
    cur,          \* per worker: Option<ZipFile> being checked
    remaining,    \* per worker: bytes of the open file not yet read
    result,       \* per worker: Option<Problem>, the Err of try_process_file
    lock,         \* holder of the problems Mutex (0: free)
    problems,     \* the shared Vec<Problem>
    origin,       \* history: origin[i] is the file whose check pushed problems[i]
    meta_calls,   \* history: filename -> number of DirEntry::metadata calls
    md5_calls,    \* history: filename -> number of get_md5 calls
    checked,      \* history: filename -> number of completed checks
    panicked,     \* a ZipFile::new in the pool has panicked
    runpc,        \* "running" | "returned" | "aborted"
    run,          \* which run over the same directory this is (1 or 2)
    first,        \* Option<bag of problems> returned by the first run
    fcur,         \* flat_map over countries: index of the country being iterated
    fpos,         \* c.files(): items of the current country already yielded
    files,        \* the items yielded so far: <<country index, ZipFile>>
    manifest,     \* Manifest.drm_entry: map_catalog (continents), sales_region (ids)
    country_map,  \* Manifest::countries: the HashMap id -> Country
    sr_pos,       \* Manifest::countries: sales regions already visited
    resolved,     \* Manifest::countries: the Vec<&Country> collected so far
    stderr,       \* the ids named by the warnings written with eprintln!
    rpc,          \* Manifest::countries: "start" | "filter" | "done"
    corrupt,      \* Option<the Vec returned by corrupt_files()>
    others,       \* Option<the Vec returned by other_errors()>
    missing_msg,  \* Option<the Option<String> returned by missing_files_msg()>
    force_delete, \* Opt::force_delete
    dir,          \* names of the files in the directory
    stdout,       \* the lines main has printed
    mainpc,       \* main: "analyzed" | "reported" | "exit"
    read_dir_ok,  \* find_zip_files: whether read_dir(path) succeeds
    entries,      \* find_zip_files: the items the ReadDir iterator yields
    ipos,         \* find_zip_files: items already taken from the iterator
    collected,    \* find_zip_files: the Vec collect has built so far
    ipc           \* find_zip_files: "start" | "iter" | "ok" | "err"

engine_vars == <<countries, zip_files, nworkers, cursor, pc, cur, remaining,
                 result, lock, problems, origin, meta_calls, md5_calls,
                 checked, panicked, runpc, run, first>>

files_vars == <<fcur, fpos, files>>

resolve_vars == <<manifest, country_map, sr_pos, resolved, stderr, rpc>>

list_vars == <<corrupt, others, missing_msg>>

main_vars == <<force_delete, dir, stdout, mainpc>>

\* what analyze neither reads nor writes
inventory_vars == <<read_dir_ok, entries, ipos, collected, ipc>>

aux_vars == <<files_vars, resolve_vars, list_vars, main_vars, inventory_vars>>

vars == <<engine_vars, aux_vars>>

(***************************************************************************)
(* Bounds of the model.                                                    *)
(***************************************************************************)
MaxWorkers == 2

Workers == 1..MaxWorkers

(***************************************************************************)
(* Text: decimal and hexadecimal formatting, decimal parsing.              *)
(***************************************************************************)
Digits == <<"0", "1", "2", "3", "4", "5", "6", "7", "8", "9">>

HexDigits == Digits \o <<"a", "b", "c", "d", "e", "f">>

IsDigit(c) == \E d \in 1..10 : Digits[d] = c

DigitVal(c) == (CHOOSE d \in 1..10 : Digits[d] = c) - 1

RECURSIVE FmtDec(_)
\* format!("{}", n) for an unsigned integer
FmtDec(n) ==
    IF n < 10 THEN <<Digits[n + 1]>>
    ELSE FmtDec(n \div 10) \o <<Digits[(n % 10) + 1]>>

\* the padding left out: format!("{}", n)
FmtDecNoPad(n) == FmtDec(n)

\* format!("{:02}", n): zero-padded to a minimum width of 2
FmtDec02(n) ==
    LET s == FmtDec(n)
    IN  IF Len(s) < 2 THEN <<"0">> \o s ELSE s

RECURSIVE FmtLowerHex(_)
\* format!("{:x}", digest): two lowercase hex digits per byte
FmtLowerHex(bytes) ==
    IF bytes = <<>> THEN <<>>
    ELSE <<HexDigits[(Head(bytes) \div 16) + 1], HexDigits[(Head(bytes) % 16) + 1]>>
         \o FmtLowerHex(Tail(bytes))

\* str::parse::<u64> succeeds on a non-empty string of decimal digits
ParseOk(s) == s # <<>> /\ \A i \in DOMAIN s : IsDigit(s[i])

RECURSIVE ParseU64(_)
ParseU64(s) ==
    IF s = <<>> THEN 0
    ELSE ParseU64(SubSeq(s, 1, Len(s) - 1)) * 10 + DigitVal(s[Len(s)])

ZipExt == <<".", "z", "i", "p">>

SpeechSuffix ==
    <<"_", "s", "p", "e", "e", "c", "h", "_", "r", "e", "c", "o", "g", "n", "i",
      "t", "i", "o", "n">> \o ZipExt

(***************************************************************************)
(* Manifest: Country::files and ZipFile::new.                              *)
(***************************************************************************)
\* ZipFile::new; defined only where the packedsize parses (it panics otherwise)
ZipFileNew(filename, info) ==
    [filename |-> filename, packedsize |-> ParseU64(info.packedsize), md5 |-> info.md5]

\* the group id formatted in the place of the country id
DataGroupNameGroupOnly(c, dg) == FmtDec(dg.id) \o <<"_">> \o FmtDec02(dg.id) \o ZipExt

\* the closure of the map over data_groups
DataGroupName(c, dg) == FmtDec(c.id) \o <<"_">> \o FmtDec02(dg.id) \o ZipExt

\* the closure of the map over speech_recognition
SpeechName(c) == FmtDec(c.id) \o SpeechSuffix

\* number of items the iterator c.files() yields
FileCount(c) == Len(c.data_groups) + Len(c.speech_recognition)

\* the k-th item of c.files(), before ZipFile::new: <<filename, info>>
FileItem(c, k) ==
    IF k <= Len(c.data_groups)
    THEN <<DataGroupName(c, c.data_groups[k]), c.data_groups[k].info>>
    ELSE <<SpeechName(c), c.speech_recognition[1]>>

(***************************************************************************)
(* Problem.                                                                *)
(***************************************************************************)
NotFound(f) == [kind |-> "NotFound", filename |-> f]

WrongSize(f, e, g) == [kind |-> "WrongSize", filename |-> f, expected |-> e, got |-> g]

WrongSignature(f, e, g) ==
    [kind |-> "WrongSignature", filename |-> f, expected |-> e, got |-> g]

\* Problem::Error(e): carries the cause only
ProblemError(cause) == [kind |-> "Error", cause |-> cause]

(***************************************************************************)
(* Inputs of the engine.                                                   *)
(***************************************************************************)
BUF_SIZE == 8192

GoodLen == 10000

BadLen == 5

\* digests (bytes) of the two file contents of the model: "ab" and "12"
DigestA == <<171>>

DigestB == <<18>>

SizeTexts == {FmtDec(GoodLen), <<"x">>}

Md5Texts == {<<"a", "b">>, <<"A", "B">>}

InfoChoices == {[packedsize |-> s, md5 |-> m] : s \in SizeTexts, m \in Md5Texts}

Entry(meta_ok, len, open_ok, read_ok, digest) ==
    [meta_ok |-> meta_ok, len |-> len, open_ok |-> open_ok, read_ok |-> read_ok,
     digest |-> digest]

\* a directory entry: unreadable metadata, a wrong size, a file that cannot
\* be opened, one whose read fails, and two readable contents
EntryChoices ==
    { Entry(FALSE, GoodLen, TRUE, TRUE, DigestA),
      Entry(TRUE, BadLen, TRUE, TRUE, DigestA),
      Entry(TRUE, GoodLen, FALSE, TRUE, DigestA),
      Entry(TRUE, GoodLen, TRUE, FALSE, DigestA),
      Entry(TRUE, GoodLen, TRUE, TRUE, DigestA),
      Entry(TRUE, GoodLen, TRUE, TRUE, DigestB) }

\* the resolved countries handed to analyze: one country with a data group
\* and a speech group, or two countries with one data group each
EngineManifests ==
    { <<[id |-> 1, name |-> "A", data_groups |-> <<[id |-> 1, info |-> i1]>>,
         speech_recognition |-> <<i2>>]>> : i1 \in InfoChoices, i2 \in InfoChoices }
    \cup
    { <<[id |-> 1, name |-> "A", data_groups |-> <<[id |-> 1, info |-> i1]>>,
         speech_recognition |-> <<>>],
        [id |-> 2, name |-> "B", data_groups |-> <<[id |-> 12, info |-> i2]>>,
         speech_recognition |-> <<>>]>> : i1 \in InfoChoices, i2 \in InfoChoices }

\* every filename the manifest expects
ExpectedNames(cs) ==
    UNION {{FileItem(cs[c], k)[1] : k \in 1..FileCount(cs[c])} : c \in DOMAIN cs}

\* a file of the directory that no manifest names
StrayName == <<"9", "_", "0", "1">> \o ZipExt

\* the inventories over a manifest: any subset of the expected files present,
\* each with any entry, plus the stray file
Inventories(cs) ==
    UNION { { [f \in present \cup {StrayName} |->
                 IF f = StrayName THEN Entry(TRUE, BadLen, TRUE, TRUE, DigestB) ELSE g[f]] :
              g \in [present -> EntryChoices] } :
            present \in SUBSET ExpectedNames(cs) }

\* no iteration of Country::files outside analyze is under way
FilesOff == fcur = 0 /\ fpos = 0 /\ files = <<>>

\* Manifest::countries is not running
ResolveOff ==
    /\ manifest = <<>>
    /\ country_map = <<>>
    /\ sr_pos = 0
    /\ resolved = <<>>
    /\ stderr = <<>>
    /\ rpc = "off"

\* no view of the problem list has been asked for
ListOff == corrupt = <<>> /\ others = <<>> /\ missing_msg = <<>>

\* main is not in its tail
MainOff == force_delete = FALSE /\ dir = {} /\ stdout = <<>> /\ mainpc = "off"

\* find_zip_files is not being followed
InventoryOff ==
    /\ read_dir_ok = TRUE
    /\ entries = <<>>
    /\ ipos = 0
    /\ collected = <<>>
    /\ ipc = "off"

(***************************************************************************)
(* Initial state of a run of analyze.                                      *)
(***************************************************************************)
Fresh(names) ==
    /\ pc = [w \in Workers |-> "idle"]
    /\ cur = [w \in Workers |-> <<>>]
    /\ remaining = [w \in Workers |-> 0]
    /\ result = [w \in Workers |-> <<>>]
    /\ lock = 0
    /\ problems = <<>>
    /\ origin = <<>>
    /\ meta_calls = [f \in names |-> 0]
    /\ md5_calls = [f \in names |-> 0]
    /\ checked = [f \in names |-> 0]
    /\ panicked = FALSE
    /\ runpc = "running"

Init ==
    /\ countries \in EngineManifests
    /\ zip_files \in Inventories(countries)
    /\ nworkers \in Workers
    /\ cursor = [c \in DOMAIN countries |-> 0]
    /\ Fresh(ExpectedNames(countries))
    /\ run = 1
    /\ first = <<>>
    /\ FilesOff
    /\ ResolveOff
    /\ ListOff
    /\ MainOff
    /\ InventoryOff

(***************************************************************************)
(* analyze: one worker's steps of the for_each closure.                    *)
(***************************************************************************)
Active(w) == runpc = "running" /\ w <= nworkers

\* the DirEntry of the file worker w is checking
ActualFile(w) == zip_files[cur[w][1].filename]

\* worker w leaves the closure with Err(p): next it locks the collection
Fail(w, p) ==
    /\ result' = [result EXCEPT ![w] = <<p>>]
    /\ pc' = [pc EXCEPT ![w] = "lock"]

\* Take with the lookup miss dropped instead of reported
TakeSilentMiss(w, c) ==
    /\ Active(w)
    /\ pc[w] = "idle"
    /\ cursor[c] < FileCount(countries[c])
    /\ LET item == FileItem(countries[c], cursor[c] + 1)
       IN  /\ ParseOk(item[2].packedsize)
           /\ IF item[1] \in DOMAIN zip_files
              THEN /\ pc' = [pc EXCEPT ![w] = "meta"]
                   /\ cur' = [cur EXCEPT ![w] = <<ZipFileNew(item[1], item[2])>>]
                   /\ UNCHANGED checked
              ELSE /\ checked' = [checked EXCEPT ![item[1]] = @ + 1]
                   /\ UNCHANGED <<pc, cur>>
    /\ cursor' = [cursor EXCEPT ![c] = @ + 1]
    /\ UNCHANGED <<countries, zip_files, nworkers, remaining, result, lock, problems,
                   origin, meta_calls, md5_calls, panicked, runpc, run, first, aux_vars>>

\* the pool hands worker w the next item of c.files() (ZipFile::new parses
\* the packedsize), and the closure looks the filename up in zip_files
Take(w, c) ==
    /\ Active(w)
    /\ pc[w] = "idle"
    /\ cursor[c] < FileCount(countries[c])
    /\ LET item == FileItem(countries[c], cursor[c] + 1)
       IN  /\ ParseOk(item[2].packedsize)
           /\ cur' = [cur EXCEPT ![w] = <<ZipFileNew(item[1], item[2])>>]
           /\ IF item[1] \in DOMAIN zip_files
              THEN /\ pc' = [pc EXCEPT ![w] = "meta"]
                   /\ UNCHANGED result
              ELSE Fail(w, NotFound(item[1]))
    /\ cursor' = [cursor EXCEPT ![c] = @ + 1]
    /\ UNCHANGED <<countries, zip_files, nworkers, remaining, lock, problems,
                   origin, meta_calls, md5_calls, checked, panicked, runpc, run, first, aux_vars>>

\* ZipFile::new panics on a packedsize that does not parse: the iterator of
\* that country is dropped by the unwinding, the pool keeps running
Panic(w, c) ==
    /\ Active(w)
    /\ pc[w] = "idle"
    /\ cursor[c] < FileCount(countries[c])
    /\ ~ParseOk(FileItem(countries[c], cursor[c] + 1)[2].packedsize)
    /\ panicked' = TRUE
    /\ cursor' = [cursor EXCEPT ![c] = FileCount(countries[c])]
    /\ UNCHANGED <<countries, zip_files, nworkers, pc, cur, remaining, result, lock,
                   problems, origin, meta_calls, md5_calls, checked, runpc, run, first, aux_vars>>

\* Metadata without the early return on a size mismatch: the check goes on
\* to the digest
MetadataNoReturn(w) ==
    /\ Active(w)
    /\ pc[w] = "meta"
    /\ LET zf == cur[w][1]
           e == ActualFile(w)
       IN  /\ meta_calls' = [meta_calls EXCEPT ![zf.filename] = @ + 1]
           /\ IF ~e.meta_ok
              THEN Fail(w, ProblemError("metadata"))
              ELSE /\ pc' = [pc EXCEPT ![w] = "open"]
                   /\ UNCHANGED result
    /\ UNCHANGED <<countries, zip_files, nworkers, cursor, cur, remaining, lock,
                   problems, origin, md5_calls, checked, panicked, runpc, run, first, aux_vars>>

\* actual_file.metadata()?.len() and the size comparison
Metadata(w) ==
    /\ Active(w)
    /\ pc[w] = "meta"
    /\ LET zf == cur[w][1]
           e == ActualFile(w)
       IN  /\ meta_calls' = [meta_calls EXCEPT ![zf.filename] = @ + 1]
           /\ IF ~e.meta_ok
              THEN Fail(w, ProblemError("metadata"))
              ELSE IF e.len # zf.packedsize
              THEN Fail(w, WrongSize(zf.filename, zf.packedsize, e.len))
              ELSE /\ pc' = [pc EXCEPT ![w] = "open"]
                   /\ UNCHANGED result
    /\ UNCHANGED <<countries, zip_files, nworkers, cursor, cur, remaining, lock,
                   problems, origin, md5_calls, checked, panicked, runpc, run, first, aux_vars>>

\* File::open(path).unwrap(): a file that cannot be opened panics the worker
OpenUnwrap(w) ==
    /\ Active(w)
    /\ pc[w] = "open"
    /\ LET zf == cur[w][1]
           e == ActualFile(w)
       IN  /\ md5_calls' = [md5_calls EXCEPT ![zf.filename] = @ + 1]
           /\ IF ~e.open_ok
              THEN /\ panicked' = TRUE
                   /\ pc' = [pc EXCEPT ![w] = "idle"]
                   /\ cur' = [cur EXCEPT ![w] = <<>>]
                   /\ UNCHANGED <<remaining, result>>
              ELSE /\ pc' = [pc EXCEPT ![w] = "read"]
                   /\ remaining' = [remaining EXCEPT ![w] = e.len]
                   /\ UNCHANGED <<result, panicked, cur>>
    /\ UNCHANGED <<countries, zip_files, nworkers, cursor, lock, problems,
                   origin, meta_calls, checked, runpc, run, first, aux_vars>>

\* get_md5 is entered: File::open(path)?
Open(w) ==
    /\ Active(w)
    /\ pc[w] = "open"
    /\ LET zf == cur[w][1]
           e == ActualFile(w)
       IN  /\ md5_calls' = [md5_calls EXCEPT ![zf.filename] = @ + 1]
           /\ IF ~e.open_ok
              THEN /\ Fail(w, ProblemError("open"))
                   /\ UNCHANGED remaining
              ELSE /\ pc' = [pc EXCEPT ![w] = "read"]
                   /\ remaining' = [remaining EXCEPT ![w] = e.len]
                   /\ UNCHANGED result
    /\ UNCHANGED <<countries, zip_files, nworkers, cursor, cur, lock, problems,
                   origin, meta_calls, checked, panicked, runpc, run, first, aux_vars>>

\* the comparison inverted
DigestDiffersInverted(got, expected) == got = expected

\* the comparison of the computed digest with the manifest's
DigestDiffers(got, expected) == got # expected

\* WrongSignature built with its two digests swapped
SignatureProblemSwapped(zf, got) == WrongSignature(zf.filename, got, zf.md5)

\* the Problem of a digest mismatch
SignatureProblem(zf, got) == WrongSignature(zf.filename, zf.md5, got)

\* one turn of get_md5's loop: file.read(&mut buf)? fills the buffer as far
\* as the file goes; at n = 0 the digest is formatted and compared
Read(w) ==
    /\ Active(w)
    /\ pc[w] = "read"
    /\ LET zf == cur[w][1]
           e == ActualFile(w)
           n == IF remaining[w] < BUF_SIZE THEN remaining[w] ELSE BUF_SIZE
           got == FmtLowerHex(e.digest)
       IN  IF ~e.read_ok
           THEN /\ Fail(w, ProblemError("read"))
                /\ UNCHANGED <<remaining, cur, checked>>
           ELSE IF n # 0
           THEN /\ remaining' = [remaining EXCEPT ![w] = @ - n]
                /\ UNCHANGED <<pc, result, cur, checked>>
           ELSE IF DigestDiffers(got, zf.md5)
           THEN /\ Fail(w, SignatureProblem(zf, got))
                /\ UNCHANGED <<remaining, cur, checked>>
           ELSE /\ pc' = [pc EXCEPT ![w] = "idle"]
                /\ cur' = [cur EXCEPT ![w] = <<>>]
                /\ checked' = [checked EXCEPT ![zf.filename] = @ + 1]
                /\ UNCHANGED <<remaining, result>>
    /\ UNCHANGED <<countries, zip_files, nworkers, cursor, lock, problems, origin,
                   meta_calls, md5_calls, panicked, runpc, run, first, aux_vars>>

\* the collection entered without waiting for the Mutex to be free
LockNoWait(w) ==
    /\ Active(w)
    /\ pc[w] = "lock"
    /\ lock' = w
    /\ pc' = [pc EXCEPT ![w] = "push"]
    /\ UNCHANGED <<countries, zip_files, nworkers, cursor, cur, remaining, result,
                   problems, origin, meta_calls, md5_calls, checked, panicked, runpc,
                   run, first, aux_vars>>

\* problems.lock().unwrap()
Lock(w) ==
    /\ Active(w)
    /\ pc[w] = "lock"
    /\ lock = 0
    /\ lock' = w
    /\ pc' = [pc EXCEPT ![w] = "push"]
    /\ UNCHANGED <<countries, zip_files, nworkers, cursor, cur, remaining, result,
                   problems, origin, meta_calls, md5_calls, checked, panicked, runpc,
                   run, first, aux_vars>>

\* Push into a collection cloned per worker (the Vec cloned by the init
\* closure instead of the Arc): only the first worker's pushes reach the
\* collection that analyze returns
PushOwnClone(w) ==
    /\ Active(w)
    /\ pc[w] = "push"
    /\ problems' = IF w = 1 THEN Append(problems, result[w][1]) ELSE problems
    /\ origin' = IF w = 1 THEN Append(origin, cur[w][1].filename) ELSE origin
    /\ checked' = [checked EXCEPT ![cur[w][1].filename] = @ + 1]
    /\ lock' = 0
    /\ result' = [result EXCEPT ![w] = <<>>]
    /\ cur' = [cur EXCEPT ![w] = <<>>]
    /\ pc' = [pc EXCEPT ![w] = "idle"]
    /\ UNCHANGED <<countries, zip_files, nworkers, cursor, remaining, meta_calls,
                   md5_calls, panicked, runpc, run, first, aux_vars>>

\* the MutexGuard kept by the worker after the push
PushKeepGuard(w) ==
    /\ Active(w)
    /\ pc[w] = "push"
    /\ problems' = Append(problems, result[w][1])
    /\ origin' = Append(origin, cur[w][1].filename)
    /\ checked' = [checked EXCEPT ![cur[w][1].filename] = @ + 1]
    /\ result' = [result EXCEPT ![w] = <<>>]
    /\ cur' = [cur EXCEPT ![w] = <<>>]
    /\ pc' = [pc EXCEPT ![w] = "idle"]
    /\ UNCHANGED <<countries, zip_files, nworkers, cursor, remaining, meta_calls,
                   md5_calls, panicked, runpc, run, first, lock, aux_vars>>

\* .push(p), and the guard is dropped at the end of the statement
Push(w) ==
    /\ Active(w)
    /\ pc[w] = "push"
    /\ problems' = Append(problems, result[w][1])
    /\ origin' = Append(origin, cur[w][1].filename)
    /\ checked' = [checked EXCEPT ![cur[w][1].filename] = @ + 1]
    /\ lock' = 0
    /\ result' = [result EXCEPT ![w] = <<>>]
    /\ cur' = [cur EXCEPT ![w] = <<>>]
    /\ pc' = [pc EXCEPT ![w] = "idle"]
    /\ UNCHANGED <<countries, zip_files, nworkers, cursor, remaining, meta_calls,
                   md5_calls, panicked, runpc, run, first, aux_vars>>

\* for_each_init is over: analyze returns the collection, or the panic of a
\* worker is resumed in the caller
Return ==
    /\ runpc = "running"
    /\ \A w \in Workers : pc[w] = "idle"
    /\ panicked \/ \A c \in DOMAIN countries : cursor[c] = FileCount(countries[c])
    /\ runpc' = IF panicked THEN "aborted" ELSE "returned"
    /\ UNCHANGED <<countries, zip_files, nworkers, cursor, pc, cur, remaining, result,
                   lock, problems, origin, meta_calls, md5_calls, checked, panicked,
                   run, first, aux_vars>>

Next ==
    \/ \E w \in Workers, c \in DOMAIN countries : Take(w, c)
    \/ \E w \in Workers, c \in DOMAIN countries : Panic(w, c)
    \/ \E w \in Workers : Metadata(w)
    \/ \E w \in Workers : Open(w)
    \/ \E w \in Workers : Read(w)
    \/ \E w \in Workers : Lock(w)
    \/ \E w \in Workers : Push(w)
    \/ Return

Spec == Init /\ [][Next]_vars

\* the steps of the pool's thread w
WorkerStep(w) ==
    \/ \E c \in DOMAIN countries : Take(w, c)
    \/ \E c \in DOMAIN countries : Panic(w, c)
    \/ Metadata(w)
    \/ Open(w)
    \/ Read(w)
    \/ Lock(w)
    \/ Push(w)

\* the run under a fair scheduler: a thread that can take a step does so
\* in the end, every read returns, and for_each_init returns once the pool
\* has nothing left
SpecFair ==
    /\ Init
    /\ [][Next]_vars
    /\ \A w \in Workers : WF_vars(WorkerStep(w))
    /\ WF_vars(Return)

(***************************************************************************)
(* The program run a second time on the same manifest and directory.       *)
(***************************************************************************)
\* a sequence as an unordered multiset: element -> number of occurrences
SeqToBag(s) ==
    [x \in {s[i] : i \in DOMAIN s} |-> Cardinality({i \in DOMAIN s : s[i] = x})]

\* main is started again after a run that returned: analyze starts afresh,
\* with a pool of any size, on the same countries and zip_files
Rerun ==
    /\ runpc = "returned"
    /\ run = 1
    /\ run' = 2
    /\ first' = <<[bag |-> SeqToBag(problems), order |-> problems, nworkers |-> nworkers]>>
    /\ nworkers' \in Workers
    /\ cursor' = [c \in DOMAIN countries |-> 0]
    /\ pc' = [w \in Workers |-> "idle"]
    /\ cur' = [w \in Workers |-> <<>>]
    /\ remaining' = [w \in Workers |-> 0]
    /\ result' = [w \in Workers |-> <<>>]
    /\ lock' = 0
    /\ problems' = <<>>
    /\ origin' = <<>>
    /\ meta_calls' = [f \in DOMAIN meta_calls |-> 0]
    /\ md5_calls' = [f \in DOMAIN md5_calls |-> 0]
    /\ checked' = [f \in DOMAIN checked |-> 0]
    /\ panicked' = FALSE
    /\ runpc' = "running"
    /\ UNCHANGED <<countries, zip_files, aux_vars>>

NextTwice == Next \/ Rerun

SpecTwice == Init /\ [][NextTwice]_vars

(***************************************************************************)
(* Country::files on its own: countries.iter().flat_map(|c| c.files()),    *)
(* pulled item by item.                                                    *)
(***************************************************************************)
MaxGroups == 2

CountryIds == {1, 12}

GroupIds == {0, 7, 12, 123}

SeqsUpTo(S, n) == UNION {[1..k -> S] : k \in 0..n}

SomeInfo == [packedsize |-> FmtDec(GoodLen), md5 |-> <<"a", "b">>]

FilesCountries ==
    {[id |-> i, name |-> "A", data_groups |-> [k \in DOMAIN g |-> [id |-> g[k], info |-> SomeInfo]],
      speech_recognition |-> sp] :
        i \in CountryIds, g \in SeqsUpTo(GroupIds, MaxGroups), sp \in {<<>>, <<SomeInfo>>}}

\* resolved countries: Manifest::countries takes them out of a map keyed by
\* id, so no two have the same id
FilesManifests ==
    {<<c>> : c \in FilesCountries}
    \cup {<<c, d>> : <<c, d>> \in {x \in FilesCountries \X FilesCountries : x[1].id # x[2].id}}

\* analyze is not running
EngineOff ==
    /\ zip_files = <<>>
    /\ nworkers = 0
    /\ cursor = <<>>
    /\ pc = <<>>
    /\ cur = <<>>
    /\ remaining = <<>>
    /\ result = <<>>
    /\ lock = 0
    /\ origin = <<>>
    /\ meta_calls = <<>>
    /\ md5_calls = <<>>
    /\ checked = <<>>
    /\ panicked = FALSE
    /\ runpc = "off"
    /\ run = 0
    /\ first = <<>>

engine_but_countries ==
    <<zip_files, nworkers, cursor, pc, cur, remaining, result, lock, problems, origin,
      meta_calls, md5_calls, checked, panicked, runpc, run, first>>

\* what the iteration of Country::files leaves alone
files_frame == <<countries, engine_but_countries, resolve_vars, list_vars, main_vars,
    inventory_vars>>

InitFiles ==
    /\ countries \in FilesManifests
    /\ fcur = 1
    /\ fpos = 0
    /\ files = <<>>
    /\ problems = <<>>
    /\ EngineOff
    /\ ResolveOff
    /\ ListOff
    /\ MainOff
    /\ InventoryOff

\* the map over data_groups yields its next item
FilesNextGroup ==
    /\ fcur \in DOMAIN countries
    /\ fpos < Len(countries[fcur].data_groups)
    /\ LET c == countries[fcur]
           dg == c.data_groups[fpos + 1]
       IN  files' = Append(files, <<fcur, ZipFileNew(DataGroupName(c, dg), dg.info)>>)
    /\ fpos' = fpos + 1
    /\ UNCHANGED <<fcur, files_frame>>

\* the map is exhausted: the chained Option yields its item, if any
FilesNextSpeech ==
    /\ fcur \in DOMAIN countries
    /\ fpos = Len(countries[fcur].data_groups)
    /\ countries[fcur].speech_recognition # <<>>
    /\ LET c == countries[fcur]
       IN  files' = Append(files, <<fcur, ZipFileNew(SpeechName(c), c.speech_recognition[1])>>)
    /\ fpos' = fpos + 1
    /\ UNCHANGED <<fcur, files_frame>>

\* c.files() returns None: flat_map moves on to the next country
FilesEnd ==
    /\ fcur \in DOMAIN countries
    /\ fpos = FileCount(countries[fcur])
    /\ fcur' = fcur + 1
    /\ fpos' = 0
    /\ UNCHANGED <<files, files_frame>>

NextFiles == FilesNextGroup \/ FilesNextSpeech \/ FilesEnd

SpecFiles == InitFiles /\ [][NextFiles]_vars

(***************************************************************************)
(* Manifest::countries.                                                    *)
(***************************************************************************)
MaxRegion == 2

MaxSales == 2

CatalogCountries ==
    { [id |-> 1, name |-> "A", data_groups |-> <<>>, speech_recognition |-> <<>>],
      [id |-> 1, name |-> "B", data_groups |-> <<>>, speech_recognition |-> <<>>],
      [id |-> 2, name |-> "C", data_groups |-> <<>>, speech_recognition |-> <<>>] }

SalesIds == {1, 2, 3}

\* a catalog of two continents and a sales region
Manifests ==
    {[map_catalog |-> <<a, b>>, sales_region |-> sr] :
        a \in SeqsUpTo(CatalogCountries, MaxRegion),
        b \in SeqsUpTo(CatalogCountries, MaxRegion),
        sr \in SeqsUpTo(SalesIds, MaxSales)}

RECURSIVE Flatten(_)
\* regions.iter().flat_map(|r| &r.regions)
Flatten(continents) ==
    IF continents = <<>> THEN <<>>
    ELSE Head(continents) \o Flatten(Tail(continents))

\* collect() into a HashMap: insert replaces the value of a key that is
\* already there, so the last entry of a key stays
Collect(flat) ==
    [id \in {flat[i].id : i \in DOMAIN flat} |->
       flat[CHOOSE i \in DOMAIN flat :
              flat[i].id = id /\ \A j \in DOMAIN flat : flat[j].id = id => j <= i]]

\* HashMap::remove
Remove(map, key) == [k \in (DOMAIN map) \ {key} |-> map[k]]

resolve_frame == <<engine_vars, files_vars, list_vars, main_vars,
    inventory_vars>>

InitResolve ==
    /\ manifest \in Manifests
    /\ country_map = <<>>
    /\ sr_pos = 0
    /\ resolved = <<>>
    /\ stderr = <<>>
    /\ rpc = "start"
    /\ countries = <<>>
    /\ problems = <<>>
    /\ EngineOff
    /\ FilesOff
    /\ ListOff
    /\ MainOff
    /\ InventoryOff

\* let mut country_map = ... .collect()
BuildCountryMap ==
    /\ rpc = "start"
    /\ country_map' = Collect(Flatten(manifest.map_catalog))
    /\ rpc' = "filter"
    /\ UNCHANGED <<manifest, sr_pos, resolved, stderr, resolve_frame>>

\* the closure of filter_map with the warning left out
ResolveNextSilent ==
    /\ rpc = "filter"
    /\ sr_pos < Len(manifest.sales_region)
    /\ LET id == manifest.sales_region[sr_pos + 1]
       IN  IF id \in DOMAIN country_map
           THEN /\ resolved' = Append(resolved, country_map[id])
                /\ country_map' = Remove(country_map, id)
           ELSE UNCHANGED <<resolved, country_map>>
    /\ sr_pos' = sr_pos + 1
    /\ UNCHANGED <<manifest, stderr, rpc, resolve_frame>>

\* the closure of filter_map with get in the place of remove: the country
\* stays in the map
ResolveNextGet ==
    /\ rpc = "filter"
    /\ sr_pos < Len(manifest.sales_region)
    /\ LET id == manifest.sales_region[sr_pos + 1]
       IN  IF id \in DOMAIN country_map
           THEN /\ resolved' = Append(resolved, country_map[id])
                /\ UNCHANGED <<stderr, country_map>>
           ELSE /\ stderr' = Append(stderr, id)
                /\ UNCHANGED <<resolved, country_map>>
    /\ sr_pos' = sr_pos + 1
    /\ UNCHANGED <<manifest, rpc, resolve_frame>>

\* the closure of filter_map on the next sales region: the country is taken
\* out of the map, or the warning is written and the region skipped
ResolveNext ==
    /\ rpc = "filter"
    /\ sr_pos < Len(manifest.sales_region)
    /\ LET id == manifest.sales_region[sr_pos + 1]
       IN  IF id \in DOMAIN country_map
           THEN /\ resolved' = Append(resolved, country_map[id])
                /\ country_map' = Remove(country_map, id)
                /\ UNCHANGED stderr
           ELSE /\ stderr' = Append(stderr, id)
                /\ UNCHANGED <<resolved, country_map>>
    /\ sr_pos' = sr_pos + 1
    /\ UNCHANGED <<manifest, rpc, resolve_frame>>

\* the iterator is exhausted: collect() returns Ok(resolved)
ResolveCollect ==
    /\ rpc = "filter"
    /\ sr_pos = Len(manifest.sales_region)
    /\ rpc' = "done"
    /\ UNCHANGED <<manifest, country_map, sr_pos, resolved, stderr, resolve_frame>>

NextResolve == BuildCountryMap \/ ResolveNext \/ ResolveCollect

SpecResolve == InitResolve /\ [][NextResolve]_vars

(***************************************************************************)
(* ProblemList: the views of a problem list.                               *)
(***************************************************************************)
MaxProblems == 3

Name1 == <<"1", "_", "0", "1">> \o ZipExt

Name2 == <<"2", "_", "0", "7">> \o ZipExt

ProblemChoices ==
    { NotFound(Name1), NotFound(Name2),
      WrongSize(Name1, GoodLen, BadLen), WrongSize(Name2, GoodLen, BadLen),
      WrongSignature(Name1, <<"a", "b">>, <<"1", "2">>),
      ProblemError("read") }

ProblemLists == SeqsUpTo(ProblemChoices, MaxProblems)

RECURSIVE corrupt_files_sizes_only(_)
\* corrupt_files with the WrongSignature pattern left out
corrupt_files_sizes_only(ps) ==
    IF ps = <<>> THEN <<>>
    ELSE (IF Head(ps).kind = "WrongSize" THEN <<Head(ps).filename>> ELSE <<>>)
         \o corrupt_files_sizes_only(Tail(ps))

RECURSIVE corrupt_files(_)
\* ProblemList::corrupt_files: filter_map over the list
corrupt_files(ps) ==
    IF ps = <<>> THEN <<>>
    ELSE (IF Head(ps).kind \in {"WrongSignature", "WrongSize"}
          THEN <<Head(ps).filename>> ELSE <<>>)
         \o corrupt_files(Tail(ps))

\* ProblemList::other_errors: filter over the list
other_errors(ps) == SelectSeq(ps, LAMBDA q : q.kind # "NotFound")

list_frame == <<engine_vars, files_vars, resolve_vars, main_vars,
    inventory_vars>>

InitList ==
    /\ problems \in ProblemLists
    /\ corrupt = <<>>
    /\ others = <<>>
    /\ missing_msg = <<>>
    /\ countries = <<>>
    /\ EngineOff
    /\ FilesOff
    /\ ResolveOff
    /\ MainOff
    /\ InventoryOff

CallCorruptFiles ==
    /\ corrupt = <<>>
    /\ corrupt' = <<corrupt_files(problems)>>
    /\ UNCHANGED <<others, missing_msg, list_frame>>

CallOtherErrors ==
    /\ others = <<>>
    /\ others' = <<other_errors(problems)>>
    /\ UNCHANGED <<corrupt, missing_msg, list_frame>>

NextList == CallCorruptFiles \/ CallOtherErrors

SpecList == InitList /\ [][NextList]_vars

(***************************************************************************)
(* ProblemList::missing_files_msg.                                         *)
(***************************************************************************)
\* s.len() > 80
MsgLimit == 80

\* s.truncate(77)
MsgKeep == 77

MissingFilesText ==
    <<" ", "m", "i", "s", "s", "i", "n", "g", " ", "f", "i", "l", "e", "s", ":", " ">>

RECURSIVE not_found_names(_)
\* the filter_map over the list: the filenames of the NotFound entries
not_found_names(ps) ==
    IF ps = <<>> THEN <<>>
    ELSE (IF Head(ps).kind = "NotFound" THEN <<Head(ps).filename>> ELSE <<>>)
         \o not_found_names(Tail(ps))

RECURSIVE Join(_, _)
\* [&str]::join
Join(names, sep) ==
    IF names = <<>> THEN <<>>
    ELSE IF Len(names) = 1 THEN names[1]
    ELSE names[1] \o sep \o Join(Tail(names), sep)

\* the line is cut as soon as it reaches the limit
missing_files_msg_at_limit(ps) ==
    LET filenames == not_found_names(ps)
        s == FmtDec(Len(filenames)) \o MissingFilesText \o Join(filenames, <<",", " ">>)
    IN  IF filenames = <<>> THEN <<>>
        ELSE IF Len(s) >= MsgLimit
             THEN <<SubSeq(s, 1, MsgKeep) \o <<".", ".", ".">>>>
             ELSE <<s>>

\* ProblemList::missing_files_msg: the Option<String> it returns
missing_files_msg(ps) ==
    LET filenames == not_found_names(ps)
        s == FmtDec(Len(filenames)) \o MissingFilesText \o Join(filenames, <<",", " ">>)
    IN  IF filenames = <<>> THEN <<>>
        ELSE IF Len(s) > MsgLimit
             THEN <<SubSeq(s, 1, MsgKeep) \o <<".", ".", ".">>>>
             ELSE <<s>>

\* filenames of 8, 9, 10 and 25 characters, as Country::files builds them
MsgNames ==
    {Name1,
     DataGroupName([id |-> 1], [id |-> 123]),
     DataGroupName([id |-> 12], [id |-> 123]),
     SpeechName([id |-> 12])}

MsgChoices ==
    {NotFound(n) : n \in MsgNames}
    \cup {WrongSize(Name1, GoodLen, BadLen), ProblemError("read")}

MsgLists == SeqsUpTo(MsgChoices, MaxProblems)

InitMsg ==
    /\ problems \in MsgLists
    /\ corrupt = <<>>
    /\ others = <<>>
    /\ missing_msg = <<>>
    /\ countries = <<>>
    /\ EngineOff
    /\ FilesOff
    /\ ResolveOff
    /\ MainOff
    /\ InventoryOff

CallMissingFilesMsg ==
    /\ missing_msg = <<>>
    /\ missing_msg' = <<missing_files_msg(problems)>>
    /\ UNCHANGED <<corrupt, others, list_frame>>

NextMsg == CallMissingFilesMsg

SpecMsg == InitMsg /\ [][NextMsg]_vars

(***************************************************************************)
(* main, from the return of analyze on.                                    *)
(***************************************************************************)
\* report_problems: the lines it prints
report_problems(ps) ==
    LET missing == SelectSeq(ps, LAMBDA q : q.kind = "NotFound")
        other == SelectSeq(ps, LAMBDA q : q.kind # "NotFound")
        n == Len(missing) + Len(other)
    IN  IF n = 0
        THEN <<[line |-> "good to go"]>>
        ELSE <<[line |-> "encountered", n |-> n],
               [line |-> "missing", n |-> Len(missing),
                names |-> [k \in DOMAIN missing |-> missing[k].filename]]>>
             \o [k \in DOMAIN other |-> [line |-> "problem", problem |-> other[k]]]

main_frame == <<engine_vars, files_vars, resolve_vars, list_vars,
    inventory_vars>>

\* analyze has returned `problems`; the corrupt files of the list are files
\* of the directory
InitMain ==
    /\ problems \in ProblemLists
    /\ force_delete \in BOOLEAN
    /\ dir = {problems[i].filename :
                i \in {j \in DOMAIN problems :
                         problems[j].kind \in {"WrongSize", "WrongSignature"}}}
    /\ stdout = <<>>
    /\ mainpc = "analyzed"
    /\ countries = <<>>
    /\ EngineOff
    /\ FilesOff
    /\ ResolveOff
    /\ ListOff
    /\ InventoryOff

\* report_problems(&problems)
ReportProblems ==
    /\ mainpc = "analyzed"
    /\ stdout' = stdout \o report_problems(problems)
    /\ mainpc' = "reported"
    /\ UNCHANGED <<force_delete, dir, main_frame>>

\* "TODO: implement confirmation and deletion logic", then Ok(())
MainReturn ==
    /\ mainpc = "reported"
    /\ mainpc' = "exit"
    /\ UNCHANGED <<force_delete, dir, stdout, main_frame>>

NextMain == ReportProblems \/ MainReturn

SpecMain == InitMain /\ [][NextMain]_vars

(***************************************************************************)
(* find_zip_files: the inventory of a directory.  An item of the ReadDir   *)
(* iterator is an io::Error or a DirEntry, kept here as its file name      *)
(* (ASCII characters, which to_string_lossy leaves as they are) and its    *)
(* file type.                                                              *)
(***************************************************************************)
MaxEntries == 3

EntryNames ==
    {<<"a", ".", "z", "i", "p">>, <<"a", ".", "Z", "I", "P">>,
     <<"a", ".", "t", "x", "t">>, <<".", "z", "i", "p">>}

DirItems ==
    {[ok |-> FALSE]}
    \cup {[ok |-> TRUE, name |-> n, is_dir |-> d] : n \in EntryNames, d \in BOOLEAN}

\* the listings of a directory: no two entries have the same name
Listings ==
    {es \in SeqsUpTo(DirItems, MaxEntries) :
       \A i, j \in DOMAIN es :
          (es[i].ok /\ es[j].ok /\ es[i].name = es[j].name) => i = j}

\* the position of the last "." of a name, 0 when it has none
LastDot(name) ==
    LET dots == {i \in DOMAIN name : name[i] = "."}
    IN  IF dots = {} THEN 0 ELSE CHOOSE i \in dots : \A j \in dots : j <= i

\* Path::extension of a path that ends in this file name: None without a
\* ".", None when the only "." is the first character, else what follows
\* the last "."
Extension(name) ==
    IF LastDot(name) <= 1 THEN <<>>
    ELSE <<SubSeq(name, LastDot(name) + 1, Len(name))>>

\* the closure of the filter_map: the Option it returns for an Ok item
KeepEntry(e) ==
    IF Extension(e.name) = <<>> THEN <<>>
    ELSE IF Extension(e.name)[1] = <<"z", "i", "p">>
         THEN <<<<e.name, [name |-> e.name, is_dir |-> e.is_dir]>>>>
         ELSE <<>>

\* collect into the HashMap: a later pair replaces an earlier one of its key
CollectMap(pairs) ==
    [n \in {pairs[i][1] : i \in DOMAIN pairs} |->
        pairs[CHOOSE i \in DOMAIN pairs :
                 /\ pairs[i][1] = n
                 /\ \A j \in DOMAIN pairs : pairs[j][1] = n => j <= i][2]]

engine_but_zip_files ==
    <<countries, nworkers, cursor, pc, cur, remaining, result, lock, problems, origin,
      meta_calls, md5_calls, checked, panicked, runpc, run, first>>

inventory_frame ==
    <<engine_but_zip_files, files_vars, resolve_vars, list_vars, main_vars>>

InitInventory ==
    /\ read_dir_ok \in BOOLEAN
    /\ entries \in Listings
    /\ ipos = 0
    /\ collected = <<>>
    /\ ipc = "start"
    /\ countries = <<>>
    /\ problems = <<>>
    /\ EngineOff
    /\ FilesOff
    /\ ResolveOff
    /\ ListOff
    /\ MainOff

\* read_dir(path).context(..)?
ReadDir ==
    /\ ipc = "start"
    /\ ipc' = IF read_dir_ok THEN "iter" ELSE "err"
    /\ UNCHANGED <<read_dir_ok, entries, ipos, collected, zip_files, inventory_frame>>

\* one item through filter_map and collect::<Result<Vec<_>>>, which stops
\* at the first Err
InventoryNext ==
    /\ ipc = "iter"
    /\ ipos < Len(entries)
    /\ LET e == entries[ipos + 1]
       IN  IF ~e.ok
           THEN /\ ipc' = "err"
                /\ UNCHANGED collected
           ELSE /\ collected' = collected \o KeepEntry(e)
                /\ UNCHANGED ipc
    /\ ipos' = ipos + 1
    /\ UNCHANGED <<read_dir_ok, entries, zip_files, inventory_frame>>

\* the iterator is exhausted: into_iter().collect() builds the HashMap
InventoryCollect ==
    /\ ipc = "iter"
    /\ ipos = Len(entries)
    /\ zip_files' = CollectMap(collected)
    /\ ipc' = "ok"
    /\ UNCHANGED <<read_dir_ok, entries, ipos, collected, inventory_frame>>

NextInventory == ReadDir \/ InventoryNext \/ InventoryCollect

SpecInventory == InitInventory /\ [][NextInventory]_vars

(***************************************************************************)
(* Properties of the engine.                                               *)
(***************************************************************************)
\* the extension find_zip_files asks for, without the "."
ZipExtension == <<"z", "i", "p">>

\* the items of the manifest: <<filename, info>> of every expected file
ExpectedItems ==
    UNION {{FileItem(countries[c], k) : k \in 1..FileCount(countries[c])} :
             c \in DOMAIN countries}

\* the entries of the collection that the check of file f pushed
ProblemsOf(f) == {i \in DOMAIN problems : origin[i] = f}

\* file f has exactly the one problem p, once its check is over, and never
\* any other
OnlyProblem(f, p) ==
    /\ \A i \in ProblemsOf(f) : problems[i] = p
    /\ Cardinality(ProblemsOf(f)) <= 1
    /\ checked[f] >= 1 => Cardinality(ProblemsOf(f)) = 1

Present(it) == it[1] \in DOMAIN zip_files

SizeReadable(it) == Present(it) /\ ParseOk(it[2].packedsize) /\ zip_files[it[1]].meta_ok

SizeMatches(it) == SizeReadable(it) /\ zip_files[it[1]].len = ParseU64(it[2].packedsize)

Readable(it) == SizeMatches(it) /\ zip_files[it[1]].open_ok /\ zip_files[it[1]].read_ok

\* C1: an expected file that is in the inventory with a size other than the
\* expected one gets exactly one WrongSize{filename, expected, got}, and
\* get_md5 is never entered for it; no get_md5 without a metadata read of
\* a matching size before it.
C1_WrongSizeNoDigest ==
    /\ \A it \in ExpectedItems :
          (SizeReadable(it) /\ ~SizeMatches(it)) =>
             /\ md5_calls[it[1]] = 0
             /\ OnlyProblem(it[1], [kind |-> "WrongSize", filename |-> it[1],
                                    expected |-> ParseU64(it[2].packedsize),
                                    got |-> zip_files[it[1]].len])
    /\ \A it \in ExpectedItems :
          md5_calls[it[1]] > 0 => meta_calls[it[1]] > 0 /\ SizeMatches(it)

C1_Witness ==
    \E it \in ExpectedItems :
       /\ SizeReadable(it) /\ ~SizeMatches(it)
       /\ checked[it[1]] = 1
       /\ runpc = "returned"

\* C2: an expected file in the inventory with the expected size that could be
\* read and whose computed digest is not the manifest's string gets exactly
\* one WrongSignature, expected = the manifest's md5, got = the computed
\* lowercase hex digest, and no other problem.
C2_WrongSignature ==
    \A it \in ExpectedItems :
       (Readable(it) /\ FmtLowerHex(zip_files[it[1]].digest) # it[2].md5) =>
          OnlyProblem(it[1], [kind |-> "WrongSignature", filename |-> it[1],
                              expected |-> it[2].md5,
                              got |-> FmtLowerHex(zip_files[it[1]].digest)])

C2_Witness ==
    \E it \in ExpectedItems :
       /\ Readable(it)
       /\ zip_files[it[1]].digest = DigestB
       /\ checked[it[1]] = 1
       /\ runpc = "returned"

\* C3: an expected file that the inventory lacks gets exactly one
\* NotFound{filename}; neither its metadata nor its digest is ever read.
C3_NotFound ==
    \A it \in ExpectedItems :
       ~Present(it) =>
          /\ meta_calls[it[1]] = 0
          /\ md5_calls[it[1]] = 0
          /\ OnlyProblem(it[1], [kind |-> "NotFound", filename |-> it[1]])
          /\ runpc = "returned" => Cardinality(ProblemsOf(it[1])) = 1

C3_Witness ==
    \E it \in ExpectedItems :
       /\ ~Present(it)
       /\ checked[it[1]] = 1
       /\ runpc = "returned"

\* what went wrong with the check of item it, if anything
Failed(it, kind) ==
    CASE kind = "NotFound" -> ~Present(it)
      [] kind = "WrongSize" -> SizeReadable(it) /\ ~SizeMatches(it)
      [] kind = "WrongSignature" ->
            Readable(it) /\ FmtLowerHex(zip_files[it[1]].digest) # it[2].md5
      [] kind = "Error" ->
            /\ Present(it)
            /\ \/ ~zip_files[it[1]].meta_ok
               \/ SizeMatches(it) /\ ~Readable(it)

\* C4: an expected file in the inventory with the expected size and a
\* computed digest equal to the manifest's string has no entry in the
\* collection; every entry of the collection comes from an expected file
\* whose lookup, size, digest or I/O failed, and says which.
C4_NoProblemIffOk ==
    /\ \A it \in ExpectedItems :
          (Readable(it) /\ FmtLowerHex(zip_files[it[1]].digest) = it[2].md5) =>
             ProblemsOf(it[1]) = {}
    /\ \A i \in DOMAIN problems :
          \E it \in ExpectedItems :
             /\ it[1] = origin[i]
             /\ Failed(it, problems[i].kind)
             /\ problems[i].kind # "Error" => problems[i].filename = it[1]

C4_Witness ==
    /\ runpc = "returned"
    /\ Len(problems) = 1
    /\ \E it \in ExpectedItems :
          /\ Readable(it) /\ FmtLowerHex(zip_files[it[1]].digest) = it[2].md5
          /\ checked[it[1]] = 1

UpperToLower ==
    [c \in {"A", "B", "C", "D", "E", "F"} |->
       CASE c = "A" -> "a" [] c = "B" -> "b" [] c = "C" -> "c"
         [] c = "D" -> "d" [] c = "E" -> "e" [] c = "F" -> "f"]

\* a hex string with its letters in lower case
LowerCase(s) ==
    [i \in DOMAIN s |-> IF s[i] \in DOMAIN UpperToLower THEN UpperToLower[s[i]] ELSE s[i]]

\* C5: a readable file of the expected size whose computed digest equals the
\* manifest's digest up to letter case gets no WrongSignature.
C5_CaseInsensitiveDigest ==
    \A it \in ExpectedItems :
       (Readable(it) /\ FmtLowerHex(zip_files[it[1]].digest) = LowerCase(it[2].md5)) =>
          \A i \in ProblemsOf(it[1]) : problems[i].kind # "WrongSignature"

\* C7: a second run over the same manifest and the same directory returns
\* the same problems as the first, as a multiset, whatever the sizes of the
\* two pools and the schedules of their workers.
C7_SameBagTwice ==
    (run = 2 /\ runpc = "returned") => SeqToBag(problems) = first[1].bag

C7_Witness ==
    /\ run = 2
    /\ runpc = "returned"
    /\ Len(problems) = 2
    /\ problems # first[1].order
    /\ nworkers # first[1].nworkers

(***************************************************************************)
(* Properties of Country::files.                                           *)
(***************************************************************************)
\* the ZipFiles that flat_map yielded for country number c
FilesOfCountry(c) ==
    LET own == SelectSeq(files, LAMBDA x : x[1] = c)
    IN  [k \in DOMAIN own |-> own[k][2]]

NumDigits(n) == IF n < 10 THEN 1 ELSE IF n < 100 THEN 2 ELSE IF n < 1000 THEN 3 ELSE 4

\* s is the decimal numeral of n in at least `width` characters, padded
\* with zeros on the left
IsNumeral(s, n, width) ==
    /\ ParseOk(s)
    /\ ParseU64(s) = n
    /\ Len(s) = IF NumDigits(n) < width THEN width ELSE NumDigits(n)

\* name is `{id}_{gid:02}.zip`
IsGroupName(name, id, gid) ==
    \E a \in 1..Len(name), b \in 1..Len(name) :
       /\ a + 1 + b + 4 = Len(name)
       /\ IsNumeral(SubSeq(name, 1, a), id, 1)
       /\ name[a + 1] = "_"
       /\ IsNumeral(SubSeq(name, a + 2, a + 1 + b), gid, 2)
       /\ SubSeq(name, a + b + 2, Len(name)) = <<".", "z", "i", "p">>

\* name is `{id}_speech_recognition.zip`
IsSpeechName(name, id) ==
    \E a \in 1..Len(name) :
       /\ IsNumeral(SubSeq(name, 1, a), id, 1)
       /\ SubSeq(name, a + 1, Len(name)) =
             <<"_", "s", "p", "e", "e", "c", "h", "_", "r", "e", "c", "o", "g", "n",
               "i", "t", "i", "o", "n", ".", "z", "i", "p">>

\* C10: once c.files() is exhausted, it has yielded data_groups.len() files,
\* named `{id}_{group id:02}.zip` in the order of the groups, and one more,
\* named `{id}_speech_recognition.zip`, exactly if the speech group is there.
C10_FilesOfCountry ==
    \A c \in DOMAIN countries :
       c < fcur =>
          LET out == FilesOfCountry(c)
              n == Len(countries[c].data_groups)
              speech == countries[c].speech_recognition # <<>>
          IN  /\ Len(out) = n + (IF speech THEN 1 ELSE 0)
              /\ \A k \in 1..n :
                    IsGroupName(out[k].filename, countries[c].id,
                                countries[c].data_groups[k].id)
              /\ speech => IsSpeechName(out[n + 1].filename, countries[c].id)

C10_Witness ==
    /\ fcur = 2
    /\ Len(countries[1].data_groups) = 2
    /\ countries[1].data_groups[1].id = 7
    /\ countries[1].data_groups[2].id = 123
    /\ countries[1].speech_recognition # <<>>
    /\ Len(files) = 3

(***************************************************************************)
(* Properties of the problem list and of main.                             *)
(***************************************************************************)
CorruptIndices ==
    {i \in DOMAIN problems : problems[i].kind = "WrongSize" \/ problems[i].kind = "WrongSignature"}

\* C6: corrupt_files() is the list of the filenames of the WrongSize and
\* WrongSignature entries, one per entry and in the order of the collection;
\* NotFound and Error entries contribute nothing.
C6_CorruptFiles ==
    corrupt # <<>> =>
       /\ Len(corrupt[1]) = Cardinality(CorruptIndices)
       /\ \A i \in CorruptIndices :
             corrupt[1][Cardinality({j \in CorruptIndices : j <= i})] = problems[i].filename

C6_Witness ==
    /\ corrupt = <<<<Name2, Name1>>>>
    /\ Len(problems) = 3
    /\ problems[2].kind = "NotFound"
    /\ problems[3].kind = "WrongSignature"

\* C9: when main exits with force_delete set, every file of corrupt_files()
\* is gone from the directory or reported with a deletion error.
C9_CorruptFilesDeleted ==
    (mainpc = "exit" /\ force_delete) =>
       \A k \in DOMAIN corrupt_files(problems) :
          \/ corrupt_files(problems)[k] \notin dir
          \/ \E l \in DOMAIN stdout :
                /\ stdout[l].line = "delete error"
                /\ stdout[l].filename = corrupt_files(problems)[k]

(***************************************************************************)
(* Properties of Manifest::countries.                                      *)
(***************************************************************************)
CatalogIds ==
    {c.id : c \in UNION {{manifest.map_catalog[k][i] : i \in DOMAIN manifest.map_catalog[k]} :
                            k \in DOMAIN manifest.map_catalog}}

\* C8: every visited sales-region id without an entity in the catalog is
\* named by a warning, every visited id is either resolved or warned about,
\* and the result holds exactly the entities of the ids that matched.
C8_MissObservable ==
    /\ \A i \in 1..sr_pos :
          manifest.sales_region[i] \notin CatalogIds =>
             \E j \in DOMAIN stderr : stderr[j] = manifest.sales_region[i]
    /\ Len(resolved) + Len(stderr) = sr_pos
    /\ rpc = "done" =>
          /\ {resolved[k].id : k \in DOMAIN resolved}
                = {manifest.sales_region[i] : i \in DOMAIN manifest.sales_region}
                  \cap CatalogIds
          /\ \A k \in DOMAIN resolved :
                \E a \in DOMAIN manifest.map_catalog :
                   \E b \in DOMAIN manifest.map_catalog[a] :
                      manifest.map_catalog[a][b] = resolved[k]

C8_Witness ==
    /\ rpc = "done"
    /\ manifest.sales_region = <<3, 2>>
    /\ stderr = <<3>>
    /\ Len(resolved) = 1
    /\ resolved[1].id = 2

\* no two countries have the same id, no two groups of a country the same id
UniqueIdPairs ==
    /\ \A a, b \in DOMAIN countries : countries[a].id = countries[b].id => a = b
    /\ \A c \in DOMAIN countries :
          \A a, b \in DOMAIN countries[c].data_groups :
             countries[c].data_groups[a].id = countries[c].data_groups[b].id => a = b

\* C11: over a manifest whose (entity id, group id) pairs are unique, no two
\* of the expected files that flat_map yields, speech files included, have
\* the same filename.
C11_UniqueFilenames ==
    UniqueIdPairs =>
       \A i, j \in DOMAIN files : files[i][2].filename = files[j][2].filename => i = j

C11_Witness ==
    /\ UniqueIdPairs
    /\ fcur = 3
    /\ Len(files) = 6
    /\ \E a \in DOMAIN countries[1].data_groups, b \in DOMAIN countries[2].data_groups :
          countries[1].data_groups[a].id = countries[2].data_groups[b].id

\* C12: when find_zip_files returns Ok, the inventory has a key for a
\* directory entry exactly if the entry is not a sub-directory and its
\* extension is exactly `zip`, and it has no other key; it returns Ok only
\* if read_dir and every item of the enumeration were Ok.
C12_InventoryFilesOnly ==
    ipc = "ok" =>
       /\ read_dir_ok
       /\ \A i \in DOMAIN entries :
             /\ entries[i].ok
             /\ entries[i].name \in DOMAIN zip_files
                   <=> (/\ ~entries[i].is_dir
                        /\ Extension(entries[i].name) = <<ZipExtension>>)
       /\ \A n \in DOMAIN zip_files : \E i \in DOMAIN entries : entries[i].name = n

\* the NotFound entries of the collection, in its order
NotFoundEntries == SelectSeq(problems, LAMBDA q : q.kind = "NotFound")

RECURSIVE ListedFrom(_)
\* the filenames of the NotFound entries from the k-th on, separated by ", "
ListedFrom(k) ==
    IF k > Len(NotFoundEntries) THEN <<>>
    ELSE (IF k > 1 THEN <<",", " ">> ELSE <<>>)
         \o NotFoundEntries[k].filename \o ListedFrom(k + 1)

\* the line with the number of NotFound entries and all their filenames
UntruncatedLine ==
    FmtDec(Len(NotFoundEntries))
    \o <<" ", "m", "i", "s", "s", "i", "n", "g", " ", "f", "i", "l", "e", "s", ":", " ">>
    \o ListedFrom(1)

EndsWithMarker(line) ==
    /\ Len(line) >= 3
    /\ SubSeq(line, Len(line) - 2, Len(line)) = <<".", ".", ".">>

\* C13: missing_files_msg() returns None exactly if the collection has no
\* NotFound entry; otherwise its line is the count and the filenames of the
\* NotFound entries, whole if that is at most 80 characters and else cut
\* to end with "...", never longer than 80 characters, and it ends with
\* "..." exactly if the whole line is longer than 80 characters.
C13_MissingFilesMsg ==
    missing_msg # <<>> =>
       LET r == missing_msg[1]
       IN  /\ r = <<>> <=> NotFoundEntries = <<>>
           /\ r # <<>> =>
                 /\ Len(r[1]) <= 80
                 /\ EndsWithMarker(r[1]) <=> Len(UntruncatedLine) > 80
                 /\ \E n \in 0..Len(r[1]) :
                       /\ SubSeq(r[1], 1, n) = SubSeq(UntruncatedLine, 1, n)
                       /\ \/ n = Len(r[1]) /\ n = Len(UntruncatedLine)
                          \/ n = Len(r[1]) - 3 /\ Len(UntruncatedLine) > 80

\* a line of exactly 80 characters has been returned whole
C13_Witness ==
    /\ missing_msg # <<>>
    /\ missing_msg[1] # <<>>
    /\ Len(UntruncatedLine) = 80
    /\ missing_msg[1][1] = UntruncatedLine

\* a line of more than 80 characters has been returned cut
C13_WitnessCut ==
    /\ missing_msg # <<>>
    /\ missing_msg[1] # <<>>
    /\ Len(UntruncatedLine) = 81
    /\ Len(missing_msg[1][1]) = 80
    /\ EndsWithMarker(missing_msg[1][1])

\* the check of item it ends with a Problem
CheckFails(it) == \E kind \in {"NotFound", "WrongSize", "WrongSignature", "Error"} : Failed(it, kind)

\* C14: at most one worker is appending at any time, and it holds the
\* Mutex; no file ever has two entries in the collection; when analyze
\* returns, the collection has exactly one entry for each expected file
\* whose check failed, none for any other file, and nothing else.
C14_OneEntryPerFailedFile ==
    /\ \A v, w \in Workers : (pc[v] = "push" /\ pc[w] = "push") => v = w
    /\ \A w \in Workers : pc[w] = "push" => lock = w
    /\ \A it \in ExpectedItems : Cardinality(ProblemsOf(it[1])) <= 1
    /\ runpc = "returned" =>
          /\ \A it \in ExpectedItems :
                Cardinality(ProblemsOf(it[1])) = IF CheckFails(it) THEN 1 ELSE 0
          /\ Len(problems) = Cardinality({it \in ExpectedItems : CheckFails(it)})
          /\ \A i \in DOMAIN problems : \E it \in ExpectedItems : origin[i] = it[1]

\* two workers have a Problem each: one is appending, the other waits
C14_Witness ==
    /\ nworkers = 2
    /\ pc[1] = "push"
    /\ pc[2] = "lock"
    /\ lock = 1

\* the call that fails for an item whose check ends with an I/O error
IoCause(it) ==
    IF ~zip_files[it[1]].meta_ok THEN "metadata"
    ELSE IF ~zip_files[it[1]].open_ok THEN "open"
    ELSE "read"

\* C15: an expected file whose metadata(), open or read fails gets exactly
\* one Error problem, carrying that failure, and no other; no file's
\* metadata or digest is read twice and no check is made twice; a run whose
\* packed sizes all parse never aborts, and when it returns every expected
\* file has been checked to completion.
C15_IoErrorIsOneProblem ==
    /\ \A it \in ExpectedItems :
          Failed(it, "Error") => OnlyProblem(it[1], [kind |-> "Error", cause |-> IoCause(it)])
    /\ \A it \in ExpectedItems :
          meta_calls[it[1]] <= 1 /\ md5_calls[it[1]] <= 1 /\ checked[it[1]] <= 1
    /\ (\A it \in ExpectedItems : ParseOk(it[2].packedsize)) =>
          ~panicked /\ runpc # "aborted"
    /\ runpc = "returned" => \A it \in ExpectedItems : checked[it[1]] = 1

\* a run has returned with the Error of one file and the other file found
\* in order
C15_Witness ==
    /\ runpc = "returned"
    /\ Len(problems) = 1
    /\ problems[1].kind = "Error"
    /\ \E it \in ExpectedItems : Failed(it, "Error") /\ checked[it[1]] = 1
    /\ \E it \in ExpectedItems : ~CheckFails(it) /\ checked[it[1]] = 1 /\ md5_calls[it[1]] = 1

\* C16: a run over a manifest with a packed size that does not parse never
\* returns a collection, and when it aborts no Problem has been recorded
\* and no expected file has been looked up, measured, hashed or checked.
C16_AbortBeforeAnyCheck ==
    /\ (\E it \in ExpectedItems : ~ParseOk(it[2].packedsize)) => runpc # "returned"
    /\ runpc = "aborted" =>
          /\ problems = <<>>
          /\ \A it \in ExpectedItems :
                meta_calls[it[1]] = 0 /\ md5_calls[it[1]] = 0 /\ checked[it[1]] = 0

\* the Mutex is held by a worker that has its Problem and is not reading
LockHeldOnlyToPush ==
    \A w \in Workers :
       lock = w =>
          /\ pc[w] \notin {"meta", "open", "read"}
          /\ result[w] # <<>>

\* a step of a worker that holds the Mutex appends its one Problem and
\* releases the Mutex; no other step changes the collection or takes the
\* Mutex from its holder
LockReleasedWithPush ==
    /\ \A w \in Workers :
          lock = w => \/ lock' = w /\ problems' = problems
                      \/ lock' = 0 /\ problems' = Append(problems, result[w][1])
    /\ lock = 0 => UNCHANGED problems

\* C17: no worker holds the Mutex of the collection while it reads a
\* file's metadata or computes its digest; the Mutex is taken only by a
\* worker that has the outcome of its file, and is released by the step
\* that appends that one Problem.
C17_LockOnlyAroundPush == []LockHeldOnlyToPush /\ [][LockReleasedWithPush]_vars

\* one worker is in the middle of hashing while the other appends
C17_Witness ==
    /\ pc[1] = "read"
    /\ remaining[1] > 0
    /\ pc[2] = "push"
    /\ lock = 2

\* the visited positions of the sales-region list that name a catalog id
\* for the first time
FirstMatches ==
    {i \in 1..sr_pos :
       /\ manifest.sales_region[i] \in CatalogIds
       /\ \A j \in 1..(i - 1) : manifest.sales_region[j] # manifest.sales_region[i]}

\* the visited positions that are lookup misses: no such id in the catalog,
\* or the id has been named before
Misses == (1..sr_pos) \ FirstMatches

\* C18: the resolved entities are those of the first occurrences of the
\* catalog ids in the sales-region list, in the order of that list, no
\* entity twice; every other position of the list, a repeated id included,
\* has its warning, in the order of the list, and adds no entity.
C18_DeclaredOrderOnce ==
    /\ Len(resolved) = Cardinality(FirstMatches)
    /\ \A i \in FirstMatches :
          resolved[Cardinality({j \in FirstMatches : j <= i})].id = manifest.sales_region[i]
    /\ \A k, l \in DOMAIN resolved : resolved[k] = resolved[l] => k = l
    /\ Len(stderr) = Cardinality(Misses)
    /\ \A i \in Misses :
          stderr[Cardinality({j \in Misses : j <= i})] = manifest.sales_region[i]

\* an id named twice: resolved once, warned about once
C18_Witness ==
    /\ rpc = "done"
    /\ manifest.sales_region = <<1, 1>>
    /\ Len(resolved) = 1
    /\ resolved[1].id = 1
    /\ stderr = <<1>>

\* two ids named against the order of the catalog
C18_WitnessOrder ==
    /\ rpc = "done"
    /\ manifest.sales_region = <<2, 1>>
    /\ manifest.map_catalog[1] # <<>>
    /\ manifest.map_catalog[1][1].id = 1
    /\ Len(resolved) = 2
    /\ resolved[1].id = 2
    /\ resolved[2].id = 1

\* the positions <<continent, index>> of the catalog, and their order
CatalogPositions ==
    {<<a, b>> : a \in DOMAIN manifest.map_catalog, b \in 1..MaxRegion} \cap
    {p \in (DOMAIN manifest.map_catalog) \X (1..MaxRegion) :
       p[2] \in DOMAIN manifest.map_catalog[p[1]]}

Before(p, q) == p[1] < q[1] \/ (p[1] = q[1] /\ p[2] < q[2])

\* C19: every resolved entity is the first entity of the catalog, in
\* catalog order, that has its id; a later entity of the same id is never
\* the one a reference resolves to.
C19_FirstDuplicateWins ==
    \A k \in DOMAIN resolved :
       \E p \in CatalogPositions :
          /\ manifest.map_catalog[p[1]][p[2]] = resolved[k]
          /\ \A q \in CatalogPositions :
                manifest.map_catalog[q[1]][q[2]].id = resolved[k].id => ~Before(q, p)

\* the run is over, by a return or by a panic
Terminates == <>(runpc # "running")

\* C20: no file is in the hands of two workers, a worker has at most the
\* one file it took last, no file is checked twice, and a run that is over
\* has returned the collection with every expected file checked exactly
\* once.
C20_EndsWithEveryFileChecked ==
    /\ \A v, w \in Workers :
          (cur[v] # <<>> /\ cur[w] # <<>> /\ cur[v][1].filename = cur[w][1].filename) => v = w
    /\ \A w \in Workers : pc[w] = "idle" => cur[w] = <<>>
    /\ \A it \in ExpectedItems : checked[it[1]] <= 1
    /\ runpc # "running" =>
          /\ runpc = "returned"
          /\ \A it \in ExpectedItems : checked[it[1]] = 1

\* the same for the runs whose packed sizes all parse
EndsWithEveryFileCheckedIfParsed ==
    (\A it \in ExpectedItems : ParseOk(it[2].packedsize)) => C20_EndsWithEveryFileChecked

\* a run whose packed sizes all parse returns in the end
ReturnsIfParsed ==
    (\A it \in ExpectedItems : ParseOk(it[2].packedsize)) => <>(runpc = "returned")

====
